---- MODULE Spec2Model ----
(***************************************************************************)
(* Model of data_ingestion/data_ingestion.py: create_db_engine, query_data *)
(* and read_from_web_CSV, run by several callers that share the module's   *)
(* logger and the engine they query.  Every statement of a function       *)
(* is one step of the caller running it, so calls interleave as threads    *)
(* do.  The outcomes of sqlalchemy and pandas are chosen by the            *)
(* environment at the step that calls them.                                *)
(***************************************************************************)
EXTENDS Integers, Sequences, FiniteSets

\* ---- bounds of the model ----
NumCallers == 2     \* callers (threads) using the module
MaxCalls == 2       \* calls started in one behaviour
MaxRows == 1        \* largest number of rows a query or a CSV yields

Callers == 1..NumCallers

VARIABLES
    fn,         \* fn[c]: the function caller c is running
    pc,         \* pc[c]: the statement caller c is at
    engine,     \* local `engine` of create_db_engine / argument of query_data
    conn,       \* local `conn` / `connection`: id of the connection held, 0 if none
    df,         \* local `df`: number of rows of the DataFrame, NoDf if unbound
    exc,        \* the exception propagating in the call
    result,     \* what the call gave its caller
    trace,      \* library calls the current call has made, in order
    calls,      \* number of calls started
    openConns,  \* ids of the connections that are open
    opener,     \* opener[i]: the caller whose call opened connection i
    log,        \* lines the logger 'data_ingestion' has emitted
    emitted     \* emitted[c]: the lines the current call of c has logged

vars == <<fn, pc, engine, conn, df, exc, result, trace, calls,
          openConns, opener, log, emitted>>

\* ---- exceptions ----
\* An exception object: its class and the statement that raised it.
NoExc == [type |-> "none", origin |-> "none"]
Raised(t, o) == [type |-> t, origin |-> o]

\* The base class of each exception class the libraries raise here.
Base(t) ==
    CASE t = "ModuleNotFoundError" -> "ImportError"
      [] t = "EmptyDataError" -> "ValueError"
      [] t = "ParserError" -> "ValueError"
      [] t = "UnboundLocalError" -> "NameError"
      [] t = "Exception" -> "BaseException"
      [] OTHER -> "Exception"

RECURSIVE IsInstance(_, _)
IsInstance(t, cls) ==
    IF t = cls THEN TRUE
    ELSE IF t = "BaseException" THEN FALSE
    ELSE IsInstance(Base(t), cls)

\* The except clause that catches an exception of class t: the first whose
\* class t is an instance of.
MatchClause(clauses, t) ==
    LET hits == {i \in 1..Len(clauses) : IsInstance(t, clauses[i])}
    IN  clauses[CHOOSE i \in hits : \A j \in hits : i <= j]

CreateClauses == <<"ImportError", "Exception">>
QueryClauses == <<"ValueError", "Exception">>
FetchClauses == <<"EmptyDataError", "Exception">>

\* ---- values ----
\* An engine; connections are opened from it and it keeps none of them.
NoEngine == "none"
Engine == "engine"
NoDf == -1
NoResult == [kind |-> "none", handle |-> NoEngine, rows |-> NoDf, exc |-> NoExc]
ReturnEngine(e) == [kind |-> "return", handle |-> e, rows |-> NoDf, exc |-> NoExc]
ReturnDf(d) == [kind |-> "return", handle |-> NoEngine, rows |-> d, exc |-> NoExc]
Raise(e) == [kind |-> "raise", handle |-> NoEngine, rows |-> NoDf, exc |-> e]

\* A test that takes no DataFrame for empty.
DfEmptyNever(d) == FALSE

\* df.empty
DfEmpty(d) == d = 0

\* A log line: its level, which statement wrote it and the exception class
\* interpolated into it.
Line(level, msg, cause) == [level |-> level, msg |-> msg, cause |-> cause]

\* ---- outcomes of the libraries ----
\* create_engine(db_path): an engine, or the driver is missing, or the
\* connection string is rejected.
CreateEngineOutcomes == {NoExc, Raised("ModuleNotFoundError", "create_engine"),
                         Raised("ArgumentError", "create_engine")}
\* engine.connect() of the probe.
ProbeOutcomes == {NoExc, Raised("ImportError", "connect"),
                  Raised("OperationalError", "connect")}
\* engine.connect() of query_data.
ConnectOutcomes == {NoExc, Raised("OperationalError", "connect")}
\* pd.read_sql_query raising.
ExecErrors == {Raised("ProgrammingError", "execute"),
               Raised("OperationalError", "execute"),
               Raised("ValueError", "execute")}

\* What a URL resolves to.
Resources ==
    [kind : {"csv"}, rows : 0..MaxRows]
        \cup [kind : {"empty", "malformed", "unreachable"}, rows : {0}]

\* pd.read_csv(URL): the rows of the table, or the exception raised.
ReadCsv(r) ==
    CASE r.kind = "csv" -> [rows |-> r.rows, exc |-> NoExc]
      [] r.kind = "empty" ->
            [rows |-> NoDf, exc |-> Raised("EmptyDataError", "read_csv")]
      [] r.kind = "malformed" ->
            [rows |-> NoDf, exc |-> Raised("ParserError", "read_csv")]
      [] OTHER -> [rows |-> NoDf, exc |-> Raised("URLError", "read_csv")]

Init ==
    /\ fn = [c \in Callers |-> "none"]
    /\ pc = [c \in Callers |-> "idle"]
    /\ engine = [c \in Callers |-> NoEngine]
    /\ conn = [c \in Callers |-> 0]
    /\ df = [c \in Callers |-> NoDf]
    /\ exc = [c \in Callers |-> NoExc]
    /\ result = [c \in Callers |-> NoResult]
    /\ trace = [c \in Callers |-> <<>>]
    /\ calls = 0
    /\ openConns = {}
    /\ opener = <<>>
    /\ log = <<>>
    /\ emitted = [c \in Callers |-> <<>>]

\* logger.info / logger.error: the line goes to the shared log; emitted[c]
\* keeps the lines of the call c is running.
Emit(c, line) ==
    /\ log' = Append(log, line)
    /\ emitted' = [emitted EXCEPT ![c] = Append(@, line)]

\* ---- entering a function ----
Enter(c, f, at, e) ==
    /\ fn' = [fn EXCEPT ![c] = f]
    /\ calls < MaxCalls
    /\ calls' = calls + 1
    /\ pc' = [pc EXCEPT ![c] = at]
    /\ engine' = [engine EXCEPT ![c] = e]
    /\ UNCHANGED <<conn, df, exc, result, trace, openConns, opener, log, emitted>>

\* create_db_engine(db_path)
CallCreate(c) ==
    /\ pc[c] = "idle"
    /\ Enter(c, "create_db_engine", "ce_engine", NoEngine)
\* query_data(engine, sql_query), several callers may pass the same engine
CallQuery(c) ==
    /\ pc[c] = "idle"
    /\ Enter(c, "query_data", "q_connect", Engine)
\* read_from_web_CSV(URL)
CallFetch(c) ==
    /\ pc[c] = "idle"
    /\ Enter(c, "read_from_web_CSV", "f_read", NoEngine)

\* An engine that hands every caller the one connection it keeps open.
ConnectShared(c) ==
    IF openConns # {}
    THEN /\ conn' = [conn EXCEPT ![c] = CHOOSE i \in openConns : TRUE]
         /\ UNCHANGED <<openConns, opener>>
    ELSE /\ conn' = [conn EXCEPT ![c] = Len(opener) + 1]
         /\ openConns' = openConns \cup {Len(opener) + 1}
         /\ opener' = Append(opener, c)

\* engine.connect(): a new connection, open, opened by caller c.
Connect(c) ==
    /\ conn' = [conn EXCEPT ![c] = Len(opener) + 1]
    /\ openConns' = openConns \cup {Len(opener) + 1}
    /\ opener' = Append(opener, c)

\* Leaving `with engine.connect() as ...`: the connection is closed.
Close(c) ==
    /\ openConns' = openConns \ {conn[c]}
    /\ conn' = [conn EXCEPT ![c] = 0]
    /\ UNCHANGED opener

\* ---- create_db_engine ----
\* engine = create_engine(db_path)
CeEngine(c) ==
    /\ pc[c] = "ce_engine"
    /\ \E o \in CreateEngineOutcomes :
        /\ trace' = [trace EXCEPT ![c] = Append(@, <<"create_engine", o.type>>)]
        /\ IF o = NoExc
           THEN /\ engine' = [engine EXCEPT ![c] = Engine]
                /\ pc' = [pc EXCEPT ![c] = "ce_connect"]
                /\ UNCHANGED exc
           ELSE /\ exc' = [exc EXCEPT ![c] = o]
                /\ pc' = [pc EXCEPT ![c] = "ce_except"]
                /\ UNCHANGED engine
    /\ UNCHANGED <<fn, conn, df, result, calls, openConns, opener, log, emitted>>

\* with engine.connect() as conn:
CeConnect(c) ==
    /\ pc[c] = "ce_connect"
    /\ \E o \in ProbeOutcomes :
        /\ trace' = [trace EXCEPT ![c] = Append(@, <<"connect", o.type>>)]
        /\ IF o = NoExc
           THEN /\ Connect(c)
                /\ pc' = [pc EXCEPT ![c] = "ce_exit"]
                /\ UNCHANGED exc
           ELSE /\ exc' = [exc EXCEPT ![c] = o]
                /\ pc' = [pc EXCEPT ![c] = "ce_except"]
                /\ UNCHANGED <<conn, openConns, opener>>
    /\ UNCHANGED <<fn, engine, df, result, calls, log, emitted>>

\* A probe that is opened and never closed.
CeExitLeak(c) ==
    /\ pc[c] = "ce_exit"
    /\ pc' = [pc EXCEPT ![c] = "ce_info"]
    /\ UNCHANGED <<fn, engine, conn, df, exc, result, trace, calls,
                   openConns, opener, log, emitted>>

\* pass, and the end of the with block
CeExit(c) ==
    /\ pc[c] = "ce_exit"
    /\ Close(c)
    /\ trace' = [trace EXCEPT ![c] = Append(@, <<"close", "none">>)]
    /\ pc' = [pc EXCEPT ![c] = "ce_info"]
    /\ UNCHANGED <<fn, engine, df, exc, result, calls, log, emitted>>

\* logger.info(...); return engine
CeInfo(c) ==
    /\ pc[c] = "ce_info"
    /\ Emit(c, Line("INFO", "engine_created", "none"))
    /\ result' = [result EXCEPT ![c] = ReturnEngine(engine[c])]
    /\ pc' = [pc EXCEPT ![c] = "done"]
    /\ UNCHANGED <<fn, engine, conn, df, exc, trace, calls, openConns, opener>>

\* The except clauses of create_db_engine.  `except ImportError:` binds no
\* name, so its `raise e` reads the unbound local e.
CeExcept(c) ==
    /\ pc[c] = "ce_except"
    /\ IF MatchClause(CreateClauses, exc[c].type) = "ImportError"
       THEN /\ Emit(c, Line("ERROR", "sqlalchemy_required", "none"))
            /\ exc' = [exc EXCEPT ![c] = Raised("UnboundLocalError", "raise e")]
            /\ result' = [result EXCEPT ![c] = Raise(Raised("UnboundLocalError", "raise e"))]
       ELSE /\ Emit(c, Line("ERROR", "engine_failed", exc[c].type))
            /\ result' = [result EXCEPT ![c] = Raise(exc[c])]
            /\ UNCHANGED exc
    /\ pc' = [pc EXCEPT ![c] = "done"]
    /\ UNCHANGED <<fn, engine, conn, df, trace, calls, openConns, opener>>

\* ---- query_data ----
\* with engine.connect() as connection:
QConnect(c) ==
    /\ pc[c] = "q_connect"
    /\ \E o \in ConnectOutcomes :
        /\ trace' = [trace EXCEPT ![c] = Append(@, <<"connect", o.type>>)]
        /\ IF o = NoExc
           THEN /\ Connect(c)
                /\ pc' = [pc EXCEPT ![c] = "q_exec"]
                /\ UNCHANGED exc
           ELSE /\ exc' = [exc EXCEPT ![c] = o]
                /\ pc' = [pc EXCEPT ![c] = "q_except"]
                /\ UNCHANGED <<conn, openConns, opener>>
    /\ UNCHANGED <<fn, engine, df, result, calls, log, emitted>>

\* df = pd.read_sql_query(text(sql_query), connection)
QExec(c) ==
    /\ pc[c] = "q_exec"
    /\ \/ \E n \in 0..MaxRows :
            /\ df' = [df EXCEPT ![c] = n]
            /\ trace' = [trace EXCEPT ![c] = Append(@, <<"execute", "none">>)]
            /\ UNCHANGED exc
       \/ \E o \in ExecErrors :
            /\ exc' = [exc EXCEPT ![c] = o]
            /\ trace' = [trace EXCEPT ![c] = Append(@, <<"execute", o.type>>)]
            /\ UNCHANGED df
    /\ pc' = [pc EXCEPT ![c] = "q_exit"]
    /\ UNCHANGED <<fn, engine, conn, result, calls, openConns, opener, log, emitted>>

\* A connection closed by hand after read_sql_query instead of by `with`:
\* the exception of read_sql_query skips the close.
QExitLeak(c) ==
    /\ pc[c] = "q_exit"
    /\ IF exc[c] = NoExc
       THEN /\ openConns' = openConns \ {conn[c]}
            /\ conn' = [conn EXCEPT ![c] = 0]
            /\ trace' = [trace EXCEPT ![c] = Append(@, <<"close", "none">>)]
            /\ pc' = [pc EXCEPT ![c] = "q_check"]
       ELSE /\ pc' = [pc EXCEPT ![c] = "q_except"]
            /\ UNCHANGED <<conn, openConns, trace>>
    /\ UNCHANGED <<fn, engine, df, exc, result, calls, opener, log, emitted>>

\* The end of the with block, reached normally or by the exception of
\* read_sql_query: the connection is closed, the exception goes on.
QExit(c) ==
    /\ pc[c] = "q_exit"
    /\ Close(c)
    /\ trace' = [trace EXCEPT ![c] = Append(@, <<"close", "none">>)]
    /\ pc' = [pc EXCEPT ![c] = IF exc[c] = NoExc THEN "q_check" ELSE "q_except"]
    /\ UNCHANGED <<fn, engine, df, exc, result, calls, log, emitted>>

\* if df.empty: logger.error(msg); raise ValueError(msg)
\* logger.info(...); return df
QCheck(c) ==
    /\ pc[c] = "q_check"
    /\ IF DfEmpty(df[c])
       THEN /\ Emit(c, Line("ERROR", "empty_dataframe", "none"))
            /\ exc' = [exc EXCEPT ![c] = Raised("ValueError", "empty")]
            /\ pc' = [pc EXCEPT ![c] = "q_except"]
            /\ UNCHANGED result
       ELSE /\ Emit(c, Line("INFO", "query_executed", "none"))
            /\ result' = [result EXCEPT ![c] = ReturnDf(df[c])]
            /\ pc' = [pc EXCEPT ![c] = "done"]
            /\ UNCHANGED exc
    /\ UNCHANGED <<fn, engine, conn, df, trace, calls, openConns, opener>>

\* An except clause that tries the query again before giving up.
QExceptRetry(c) ==
    /\ pc[c] = "q_except"
    /\ Emit(c, Line("ERROR", "query_error", exc[c].type))
    /\ IF Len(trace[c]) <= 4
       THEN /\ exc' = [exc EXCEPT ![c] = NoExc]
            /\ pc' = [pc EXCEPT ![c] = "q_connect"]
            /\ UNCHANGED result
       ELSE /\ result' = [result EXCEPT ![c] = Raise(exc[c])]
            /\ pc' = [pc EXCEPT ![c] = "done"]
            /\ UNCHANGED exc
    /\ UNCHANGED <<fn, engine, conn, df, trace, calls, openConns, opener>>

\* The except clauses of query_data; both log and `raise e`.
QExcept(c) ==
    /\ pc[c] = "q_except"
    /\ IF MatchClause(QueryClauses, exc[c].type) = "ValueError"
       THEN Emit(c, Line("ERROR", "sql_query_failed", exc[c].type))
       ELSE Emit(c, Line("ERROR", "query_error", exc[c].type))
    /\ result' = [result EXCEPT ![c] = Raise(exc[c])]
    /\ pc' = [pc EXCEPT ![c] = "done"]
    /\ UNCHANGED <<fn, engine, conn, df, exc, trace, calls, openConns, opener>>

\* ---- read_from_web_CSV ----
\* df = pd.read_csv(URL)
FRead(c) ==
    /\ pc[c] = "f_read"
    /\ \E r \in Resources :
        LET o == ReadCsv(r) IN
        /\ trace' = [trace EXCEPT ![c] = Append(@, <<"read_csv", o.exc.type>>)]
        /\ df' = [df EXCEPT ![c] = o.rows]
        /\ exc' = [exc EXCEPT ![c] = o.exc]
        /\ pc' = [pc EXCEPT ![c] = IF o.exc = NoExc THEN "f_info" ELSE "f_except"]
    /\ UNCHANGED <<fn, engine, conn, result, calls, openConns, opener, log, emitted>>

\* logger.info(...); return df
FInfo(c) ==
    /\ pc[c] = "f_info"
    /\ Emit(c, Line("INFO", "csv_read", "none"))
    /\ result' = [result EXCEPT ![c] = ReturnDf(df[c])]
    /\ pc' = [pc EXCEPT ![c] = "done"]
    /\ UNCHANGED <<fn, engine, conn, df, exc, trace, calls, openConns, opener>>

\* The except clauses of read_from_web_CSV; both log and `raise e`.
FExcept(c) ==
    /\ pc[c] = "f_except"
    /\ IF MatchClause(FetchClauses, exc[c].type) = "EmptyDataError"
       THEN Emit(c, Line("ERROR", "check_the_url", "none"))
       ELSE Emit(c, Line("ERROR", "csv_failed", exc[c].type))
    /\ result' = [result EXCEPT ![c] = Raise(exc[c])]
    /\ pc' = [pc EXCEPT ![c] = "done"]
    /\ UNCHANGED <<fn, engine, conn, df, exc, trace, calls, openConns, opener>>

\* ---- the caller takes the result ----
Return(c) ==
    /\ pc[c] = "done"
    /\ pc' = [pc EXCEPT ![c] = "idle"]
    /\ fn' = [fn EXCEPT ![c] = "none"]
    /\ engine' = [engine EXCEPT ![c] = NoEngine]
    /\ df' = [df EXCEPT ![c] = NoDf]
    /\ exc' = [exc EXCEPT ![c] = NoExc]
    /\ result' = [result EXCEPT ![c] = NoResult]
    /\ trace' = [trace EXCEPT ![c] = <<>>]
    /\ emitted' = [emitted EXCEPT ![c] = <<>>]
    /\ UNCHANGED <<conn, calls, openConns, opener, log>>

Next ==
    \E c \in Callers :
        \/ CallCreate(c)
        \/ CeEngine(c)
        \/ CeConnect(c)
        \/ CeExit(c)
        \/ CeInfo(c)
        \/ CeExcept(c)
        \/ CallQuery(c)
        \/ QConnect(c)
        \/ QExec(c)
        \/ QExit(c)
        \/ QCheck(c)
        \/ QExcept(c)
        \/ CallFetch(c)
        \/ FRead(c)
        \/ FInfo(c)
        \/ FExcept(c)
        \/ Return(c)

Spec == Init /\ [][Next]_vars

\* ---- properties ----
Done(c) == pc[c] = "done"
InFlight(c) == pc[c] \notin {"idle", "done"}
Returned(c) == Done(c) /\ result[c].kind = "return"
Failed(c) == Done(c) /\ result[c].kind = "raise"

\* The lines of a level the current call of c has logged.
Lines(c, level) == {i \in DOMAIN emitted[c] : emitted[c][i].level = level}
Infos(c) == Cardinality(Lines(c, "INFO"))
Errors(c) == Cardinality(Lines(c, "ERROR"))
Logged(c, msg) == \E i \in DOMAIN emitted[c] : emitted[c][i].msg = msg

\* The library calls of a kind the current call of c has made, and those
\* that raised.
Steps(c, kind) == {i \in DOMAIN trace[c] : trace[c][i][1] = kind}
StepOk(c, kind) == \E i \in Steps(c, kind) : trace[c][i][2] = "none"
StepRaised(c, kind) == \E i \in Steps(c, kind) : trace[c][i][2] # "none"

\* The connections that are open and were opened by a call of c.
OpenOf(c) == {i \in openConns : opener[i] = c}

\* C1: a query_data call whose query executed and yielded zero rows ends by
\* raising the ValueError of the empty DataFrame and returns no table, and
\* every table query_data returns has at least one row.
C1_EmptyQueryRaises ==
    \A c \in Callers :
        (Done(c) /\ fn[c] = "query_data") =>
            /\ (StepOk(c, "execute") /\ df[c] = 0) =>
                    /\ result[c].kind = "raise"
                    /\ result[c].exc = Raised("ValueError", "empty")
                    /\ result[c].rows = NoDf
            /\ result[c].kind = "return" => result[c].rows >= 1

\* One query_data call has finished on a query that yielded zero rows and
\* another has returned a table.
C1_Witness ==
    \E c, d \in Callers :
        /\ Failed(c) /\ fn[c] = "query_data"
        /\ StepOk(c, "execute") /\ df[c] = 0
        /\ Returned(d) /\ fn[d] = "query_data"

\* C3: when query_data has returned or raised, the connection it opened is
\* closed, whether the query succeeded, yielded zero rows or raised; when
\* no call is in flight no connection is open.
C3_ConnectionReleased ==
    /\ \A c \in Callers :
            (Done(c) /\ fn[c] = "query_data") =>
                conn[c] = 0 /\ OpenOf(c) = {}
    /\ (\A c \in Callers : ~InFlight(c)) => openConns = {}

\* A query_data call has finished after read_sql_query raised on the
\* connection it had opened.
C3_Witness ==
    \E c \in Callers :
        /\ Failed(c) /\ fn[c] = "query_data"
        /\ StepOk(c, "connect") /\ StepRaised(c, "execute")

\* C5: create_db_engine returns an engine only after it made one engine,
\* opened one probe connection on it and closed it; its success line is
\* logged with the probe closed; and when create_engine or the probe raises
\* an exception that is no ImportError, the call returns no engine, raises
\* that same exception and logs one error line that holds it.
C5_ProbeBeforeHandle ==
    \A c \in Callers :
        fn[c] = "create_db_engine" =>
            /\ (Logged(c, "engine_created") \/ Returned(c)) =>
                    /\ trace[c] = << <<"create_engine", "none">>,
                                     <<"connect", "none">>, <<"close", "none">> >>
                    /\ conn[c] = 0 /\ OpenOf(c) = {}
            /\ Returned(c) =>
                    /\ result[c].handle = Engine
                    /\ emitted[c] = << Line("INFO", "engine_created", "none") >>
            /\ (Done(c) /\ trace[c] # <<>>
                    /\ trace[c][Len(trace[c])][2] # "none"
                    /\ ~IsInstance(trace[c][Len(trace[c])][2], "ImportError")) =>
                    /\ result[c] = Raise(exc[c])
                    /\ exc[c].type = trace[c][Len(trace[c])][2]
                    /\ exc[c].origin = trace[c][Len(trace[c])][1]
                    /\ emitted[c] = << Line("ERROR", "engine_failed", exc[c].type) >>

\* One create_db_engine call has returned its engine and another has
\* raised after its probe failed to connect.
C5_Witness ==
    \E c, d \in Callers :
        /\ Returned(c) /\ fn[c] = "create_db_engine"
        /\ StepOk(c, "connect")
        /\ Failed(d) /\ fn[d] = "create_db_engine"
        /\ exc[d] = Raised("OperationalError", "connect")

\* C9: a call makes each library call at most once (create_engine, connect,
\* read_sql_query, read_csv), and makes none after one of them has raised.
C9_NoRetry ==
    \A c \in Callers :
        /\ \A k \in {"create_engine", "connect", "execute", "read_csv"} :
                Cardinality(Steps(c, k)) <= 1
        /\ \A i, j \in DOMAIN trace[c] :
                (i < j /\ trace[c][i][2] # "none") => trace[c][j][1] = "close"

\* A query_data call has raised after its read_sql_query failed, and a
\* create_db_engine call after its probe failed.
C9_Witness ==
    \E c, d \in Callers :
        /\ Failed(c) /\ fn[c] = "query_data" /\ StepRaised(c, "execute")
        /\ Failed(d) /\ fn[d] = "create_db_engine" /\ StepRaised(d, "connect")

\* Every open connection is held by exactly the call that opened it, a call
\* holds only a connection it opened and that is still open, and no more
\* connections are open than calls are in flight.
HeldByOpener ==
    /\ \A c \in Callers :
            conn[c] # 0 =>
                /\ InFlight(c)
                /\ conn[c] \in openConns
                /\ opener[conn[c]] = c
    /\ \A i \in openConns : \E c \in Callers : conn[c] = i
    /\ Cardinality(openConns) <= Cardinality({c \in Callers : InFlight(c)})

\* A step that closes a connection is a step of the call that opened it,
\* which held it and lets go of it.
ClosedByOpener ==
    \A i \in openConns \ openConns' :
        \E c \in Callers :
            conn[c] = i /\ conn'[c] = 0 /\ opener[i] = c

\* A step only appends to the log.
LogAppendOnly ==
    /\ Len(log') >= Len(log)
    /\ SubSeq(log', 1, Len(log)) = log

\* C10: with several query_data calls in flight on one engine, under every
\* interleaving each call opens its own connection and closes only that
\* one, no more connections are open than calls are in flight, and the
\* calls write to the shared log by appending only.
C10_OwnConnection ==
    /\ []HeldByOpener
    /\ [][ClosedByOpener /\ LogAppendOnly]_vars

\* Two query_data calls hold a connection each at the same time.
C10_Witness ==
    \E c, d \in Callers :
        /\ c # d
        /\ fn[c] = "query_data" /\ fn[d] = "query_data"
        /\ conn[c] # 0 /\ conn[d] # 0

\* C2 as stated: a finished call has logged exactly one line, an INFO line
\* if it returned and an ERROR line if it raised.
C2_OneLinePerCall ==
    \A c \in Callers :
        Done(c) =>
            IF result[c].kind = "return"
            THEN Infos(c) = 1 /\ Errors(c) = 0
            ELSE Errors(c) = 1 /\ Infos(c) = 0

\* C4 as stated: when create_engine or the probe raised an ImportError, the
\* call logs the line that names the missing dependency and raises that
\* ImportError.
C4_ImportErrorReraised ==
    \A c \in Callers :
        (Done(c) /\ fn[c] = "create_db_engine" /\ trace[c] # <<>>
            /\ IsInstance(trace[c][Len(trace[c])][2], "ImportError")) =>
            /\ emitted[c] = << Line("ERROR", "sqlalchemy_required", "none") >>
            /\ result[c].kind = "raise"
            /\ result[c].exc = Raised(trace[c][Len(trace[c])][2],
                                      trace[c][Len(trace[c])][1])

\* C6 as stated: when the URL holds nothing or holds what does not parse as
\* CSV, read_from_web_CSV raises and logs the line that says to check the
\* URL, not the line of the other failures.
C6_InvalidCsvGuidance ==
    \A c \in Callers :
        (Done(c) /\ fn[c] = "read_from_web_CSV"
            /\ \E i \in Steps(c, "read_csv") :
                    trace[c][i][2] \in {"EmptyDataError", "ParserError"}) =>
            /\ result[c].kind = "raise"
            /\ emitted[c] = << Line("ERROR", "check_the_url", "none") >>

\* C7 as stated: a finished query_data or read_from_web_CSV call returned a
\* table of at least one row, or raised with one ERROR line logged.
C7_PopulatedOrFailure ==
    \A c \in Callers :
        (Done(c) /\ fn[c] \in {"query_data", "read_from_web_CSV"}) =>
            \/ result[c].kind = "return" /\ result[c].rows >= 1
            \/ result[c].kind = "raise" /\ Errors(c) = 1

\* C8 as stated: query_data logs under its ValueError clause or as an empty
\* DataFrame only when the query executed and yielded zero rows; when
\* read_sql_query raised, whatever the class, the call logs under the
\* general clause with that exception and raises it.
C8_FailurePrecedence ==
    \A c \in Callers :
        (Done(c) /\ fn[c] = "query_data") =>
            /\ (Logged(c, "sql_query_failed") \/ Logged(c, "empty_dataframe")) =>
                    StepOk(c, "execute") /\ df[c] = 0
            /\ StepRaised(c, "execute") =>
                    /\ result[c] = Raise(exc[c])
                    /\ exc[c].origin = "execute"
                    /\ emitted[c] = << Line("ERROR", "query_error", exc[c].type) >>
====
